---- MODULE Spec2Model ----
(***************************************************************************)
(* Model of the roll-call tool of wa-leg-mcp:                              *)
(*   src/src/wa_leg_mcp/tools/roll_call_tools.py   get_roll_calls          *)
(*   src/src/wa_leg_mcp/clients/wsl_client.py      WSLClient.get_roll_calls*)
(*                                                                         *)
(* One call of get_roll_calls is a run of steps (pc): biennium resolution, *)
(* identifier parsing, the fetch, the empty check, one normalization step  *)
(* per fetched record, the sort and the return.  A Python exception raised *)
(* in a step is routed through the function's except clauses.              *)
(*                                                                         *)
(* Python values are tagged records, so that values of different Python    *)
(* types can be compared: [none], [int], [str], [list], [dict].            *)
(* A Python str that the code inspects character by character (the bill    *)
(* identifier) is a sequence of one-character strings.                     *)
(***************************************************************************)
EXTENDS Integers, Sequences, FiniteSets, TLC

VARIABLES
    pc,                    \* position of the call in get_roll_calls
    bill_number,           \* argument bill_number (sequence of characters)
    biennium_arg,          \* argument biennium as the caller passed it
    biennium,              \* local biennium after line 68
    bill_num_str,          \* local bill_num_str after line 77
    bill_num,              \* local bill_num after line 90
    roll_calls_data,       \* local roll_calls_data after line 95
    formatted_roll_calls,  \* local formatted_roll_calls (lines 113-154)
    idx,                   \* number of records the loop of line 115 has consumed
    result,                \* the returned envelope
    escaped,               \* the exception that left get_roll_calls, if any
    raised,                \* the exception raised inside the try block, and where
    resolver_calls,        \* calls of get_current_biennium made by this call
    shim_calls,            \* calls of wsl_client.get_roll_calls made by this call
    upstream,              \* the latest run of a WSLClient operation: what the provider
                           \* did and what the operation returned
    log,                   \* lines written by logger.error since the call began
    calls                  \* the frames of the calls of get_roll_calls that run
                           \* concurrently, by call

vars == <<pc, bill_number, biennium_arg, biennium, bill_num_str, bill_num,
          roll_calls_data, formatted_roll_calls, idx, result, escaped,
          raised, resolver_calls, shim_calls, upstream, log, calls>>

(***************************************************************************)
(* Bounds                                                                  *)
(***************************************************************************)
MaxLen == 3          \* longest bill identifier of the pipeline specification
MaxParseLen == 5     \* longest bill identifier of the parsing specification
MaxRecords == 2      \* most records in a sequence the shim returns
MaxVotes == 2        \* most votes in a record of the normalization specification

(***************************************************************************)
(* Python values                                                           *)
(***************************************************************************)
PyNone == [none |-> TRUE]
PyInt(i) == [int |-> i]
PyStr(s) == [str |-> s]
PyList(q) == [list |-> q]
PyDict(f) == [dict |-> f]
EmptyDict == PyDict(<<>>)

IsNone(v) == "none" \in DOMAIN v
IsInt(v) == "int" \in DOMAIN v
IsStr(v) == "str" \in DOMAIN v
IsList(v) == "list" \in DOMAIN v
IsDict(v) == "dict" \in DOMAIN v

\* type(v).__name__
TypeName(v) ==
    IF IsNone(v) THEN "NoneType"
    ELSE IF IsInt(v) THEN "int"
    ELSE IF IsStr(v) THEN "str"
    ELSE IF IsList(v) THEN "list"
    ELSE "dict"

\* bool(v): Python truthiness
Truthy(v) ==
    IF IsNone(v) THEN FALSE
    ELSE IF IsInt(v) THEN v.int # 0
    ELSE IF IsStr(v) THEN v.str # ""
    ELSE IF IsList(v) THEN v.list # <<>>
    ELSE DOMAIN v.dict # {}

\* d.get(k, default) on a dict value
DictGet(d, k, default) == IF k \in DOMAIN d.dict THEN d.dict[k] ELSE default

\* An exception object: its class and str(e)
Exc(kind, msg) == [kind |-> kind, msg |-> msg]

\* isinstance(e, ValueError)
IsValueError(e) == e.kind = "ValueError"

\* A step's outcome: a value, or a raised exception
Ok(v) == [ok |-> TRUE, val |-> v]
Raise(e) == [ok |-> FALSE, exc |-> e]

(***************************************************************************)
(* Characters and strings                                                  *)
(***************************************************************************)
Whitespace == {" ", "\t"}            \* str.isspace()
DecimalDigits == {"0", "1", "2", "3", "4", "5", "6", "7", "8", "9"}
OtherDigits == {"²"}                 \* isdigit() holds, int() rejects
IsDigit(c) == c \in DecimalDigits \cup OtherDigits     \* str.isdigit()

DigitValue(c) ==
    CASE c = "0" -> 0 [] c = "1" -> 1 [] c = "2" -> 2 [] c = "3" -> 3
      [] c = "4" -> 4 [] c = "5" -> 5 [] c = "6" -> 6 [] c = "7" -> 7
      [] c = "8" -> 8 [] c = "9" -> 9

DigitChar(d) ==
    CASE d = 0 -> "0" [] d = 1 -> "1" [] d = 2 -> "2" [] d = 3 -> "3"
      [] d = 4 -> "4" [] d = 5 -> "5" [] d = 6 -> "6" [] d = 7 -> "7"
      [] d = 8 -> "8" [] d = 9 -> "9"

\* The text of a character sequence
RECURSIVE Text(_)
Text(s) == IF s = <<>> THEN "" ELSE Head(s) \o Text(Tail(s))

\* str(i) for an int i >= 0
RECURSIVE IntText(_)
IntText(i) == IF i < 10 THEN DigitChar(i) ELSE IntText(i \div 10) \o DigitChar(i % 10)

\* format(v) inside an f-string and str(v)
Format(v) ==
    IF IsStr(v) THEN v.str
    ELSE IF IsInt(v) THEN IntText(v.int)
    ELSE IF IsNone(v) THEN "None"
    ELSE "<" \o TypeName(v) \o ">"

\* s.strip()
RECURSIVE LStrip(_)
LStrip(s) == IF s # <<>> /\ Head(s) \in Whitespace THEN LStrip(Tail(s)) ELSE s
RECURSIVE RStrip(_)
RStrip(s) ==
    IF s # <<>> /\ s[Len(s)] \in Whitespace THEN RStrip(SubSeq(s, 1, Len(s) - 1)) ELSE s
Strip(s) == RStrip(LStrip(s))

\* c in s
Contains(s, c) == \E i \in 1..Len(s) : s[i] = c

\* s.split(): the maximal runs of non-whitespace characters
RECURSIVE SplitFrom(_, _, _)
SplitFrom(s, cur, acc) ==
    IF s = <<>> THEN (IF cur = <<>> THEN acc ELSE Append(acc, cur))
    ELSE IF Head(s) \in Whitespace
         THEN SplitFrom(Tail(s), <<>>, IF cur = <<>> THEN acc ELSE Append(acc, cur))
         ELSE SplitFrom(Tail(s), Append(cur, Head(s)), acc)
Split(s) == SplitFrom(s, <<>>, <<>>)

\* Mutant: only the characters 0-9 are kept
KeepDecimalDigits(s) == SelectSeq(s, LAMBDA c : c \in DecimalDigits)

\* "".join(c for c in s if c.isdigit())
KeepDigits(s) == SelectSeq(s, IsDigit)

\* int(s) for a non-empty s of isdigit() characters
RECURSIVE DecimalValue(_)
DecimalValue(s) ==
    IF s = <<>> THEN 0
    ELSE 10 * DecimalValue(SubSeq(s, 1, Len(s) - 1)) + DigitValue(s[Len(s)])
ParseInt(s) ==
    IF s # <<>> /\ \A i \in 1..Len(s) : s[i] \in DecimalDigits
    THEN Ok(DecimalValue(s))
    ELSE Raise(Exc("ValueError",
                   "invalid literal for int() with base 10: '" \o Text(s) \o "'"))

\* Mutant: the first token is taken instead of the last
CandidateFirstToken(s) ==
    LET stripped == Strip(s)
    IN  IF Contains(stripped, " ") THEN Split(stripped)[1] ELSE stripped

\* Mutant: the identifier is split whenever it holds any whitespace character
CandidateAnyWhitespace(s) ==
    LET stripped == Strip(s)
    IN  IF \E i \in 1..Len(stripped) : stripped[i] \in Whitespace
        THEN LET tokens == Split(stripped) IN tokens[Len(tokens)]
        ELSE stripped

\* Lines 71-74: the numeric candidate of a bill identifier
Candidate(s) ==
    LET stripped == Strip(s)
    IN  IF Contains(stripped, " ")
        THEN LET tokens == Split(stripped) IN tokens[Len(tokens)]
        ELSE stripped

\* Lines 71-77: bill_num_str
BillNumStr(s) == KeepDigits(Candidate(s))

(***************************************************************************)
(* Envelopes                                                               *)
(***************************************************************************)
NoResult == [pending |-> TRUE]
NoException == [nothing |-> TRUE]
NoUpstream == [unused |-> TRUE]

\* Lines 84-87, 175-178, 186-189
ErrorMetadata == [tool_name |-> "get_roll_calls", api_call |-> "GetRollCalls"]

\* Mutant: the validation envelope also carries a data entry
FormatErrorEnvelopeWithData(bn) ==
    [success |-> FALSE,
     data |-> PyNone,
     error |-> "Invalid bill number format: " \o Text(bn)
               \o ". Expected format: 'HB 1234', 'SB 5678', or '1234'",
     error_type |-> "validation",
     metadata |-> ErrorMetadata]

\* Mutant: the message echoes the trimmed identifier
FormatErrorEnvelopeTrimmed(bn) ==
    [success |-> FALSE,
     error |-> "Invalid bill number format: " \o Text(Strip(bn))
               \o ". Expected format: 'HB 1234', 'SB 5678', or '1234'",
     error_type |-> "validation",
     metadata |-> ErrorMetadata]

\* Lines 80-88
FormatErrorEnvelope(bn) ==
    [success |-> FALSE,
     error |-> "Invalid bill number format: " \o Text(bn)
               \o ". Expected format: 'HB 1234', 'SB 5678', or '1234'",
     error_type |-> "validation",
     metadata |-> ErrorMetadata]

\* Mutant: the empty envelope also counts its records
EmptyEnvelopeWithCount(bn, bi) ==
    [success |-> TRUE,
     data |-> [bill_number |-> Text(bn), biennium |-> bi, roll_calls |-> <<>>],
     metadata |-> [message |-> "No roll calls found for bill " \o Text(bn)
                               \o " in biennium " \o Format(bi),
                   api_call |-> "GetRollCalls",
                   count |-> 0]]


\* Lines 99-110
EmptyEnvelope(bn, bi) ==
    [success |-> TRUE,
     data |-> [bill_number |-> Text(bn), biennium |-> bi, roll_calls |-> <<>>],
     metadata |-> [message |-> "No roll calls found for bill " \o Text(bn)
                               \o " in biennium " \o Format(bi),
                   api_call |-> "GetRollCalls"]]

\* Mutant: the envelope echoes the digits the bill number was parsed from
SuccessEnvelopeParsedNumber(bn, bi, rcs) ==
    [success |-> TRUE,
     data |-> [bill_number |-> Text(BillNumStr(bn)), biennium |-> bi, roll_calls |-> rcs],
     metadata |-> [api_call |-> "GetRollCalls", count |-> Len(rcs)]]

\* Lines 156-167
SuccessEnvelope(bn, bi, rcs) ==
    [success |-> TRUE,
     data |-> [bill_number |-> Text(bn), biennium |-> bi, roll_calls |-> rcs],
     metadata |-> [api_call |-> "GetRollCalls", count |-> Len(rcs)]]

\* Lines 171-179
ValueErrorEnvelope(bn) ==
    [success |-> FALSE,
     error |-> "Invalid bill number: " \o Text(bn) \o ". Must be a valid number.",
     error_type |-> "validation",
     metadata |-> ErrorMetadata]

\* Lines 182-190
UnexpectedEnvelope(e) ==
    [success |-> FALSE,
     error |-> "Failed to fetch roll calls: " \o e.msg,
     error_type |-> "unexpected",
     metadata |-> ErrorMetadata]

\* The classes the collaborators of the model raise; all derive from Exception
ExceptionClasses == {"Exception", "ValueError", "AttributeError", "TypeError"}

\* Mutant: the handler of lines 180-190 is missing
ExceptClausesValueErrorOnly(e, bn) ==
    IF IsValueError(e) THEN Ok(ValueErrorEnvelope(bn)) ELSE Raise(e)

\* Mutant: every exception is reported by the handler of lines 180-190
ExceptClausesAllUnexpected(e, bn) ==
    IF e.kind \in ExceptionClasses THEN Ok(UnexpectedEnvelope(e)) ELSE Raise(e)

\* Lines 169-190: the except clauses, tried in order, for an exception e raised
\* anywhere in the try block
ExceptClauses(e, bn) ==
    IF IsValueError(e) THEN Ok(ValueErrorEnvelope(bn))
    ELSE IF e.kind \in ExceptionClasses THEN Ok(UnexpectedEnvelope(e))
    ELSE Raise(e)

(***************************************************************************)
(* Normalization of one fetched record (lines 115-151)                     *)
(***************************************************************************)
\* x.get on a value that is no dict
NoGet(v) == Exc("AttributeError", "'" \o TypeName(v) \o "' object has no attribute 'get'")

\* Mutant: the district is passed on as it was fetched
FormatVoteDistrictAsIs(vote) ==
    [legislator_name |-> DictGet(vote, "name", PyStr("")),
     vote |-> DictGet(vote, "vote_value", PyStr("")),
     district |-> DictGet(vote, "district", PyStr("")),
     party |-> DictGet(vote, "party", PyStr(""))]

\* Lines 135-140: one output vote
FormatVote(vote) ==
    [legislator_name |-> DictGet(vote, "name", PyStr("")),
     vote |-> DictGet(vote, "vote_value", PyStr("")),
     district |-> PyStr(Format(DictGet(vote, "district", PyStr("")))),
     party |-> DictGet(vote, "party", PyStr(""))]

\* Mutant: only the mapping shape of votes is understood
VotesArrayMappingOnly(roll_call) ==
    LET votes_data == DictGet(roll_call, "votes", EmptyDict)
    IN  IF IsDict(votes_data) THEN DictGet(votes_data, "array_of_vote", PyList(<<>>))
        ELSE PyList(<<>>)

\* Mutant: a votes field that is neither mapping nor list is iterated as it is
VotesArrayOtherAsIs(roll_call) ==
    LET votes_data == DictGet(roll_call, "votes", EmptyDict)
    IN  IF IsDict(votes_data) THEN DictGet(votes_data, "array_of_vote", PyList(<<>>))
        ELSE votes_data

\* Lines 124-132: votes_array
VotesArray(roll_call) ==
    LET votes_data == DictGet(roll_call, "votes", EmptyDict)
    IN  IF IsDict(votes_data) THEN DictGet(votes_data, "array_of_vote", PyList(<<>>))
        ELSE IF IsList(votes_data) THEN votes_data
        ELSE PyList(<<>>)

\* Lines 134-140: the loop over votes_array, stopping at the first entry that raises
RECURSIVE FormatVotes(_, _)
FormatVotes(entries, acc) ==
    IF entries = <<>> THEN Ok(acc)
    ELSE IF ~IsDict(Head(entries)) THEN Raise(NoGet(Head(entries)))
    ELSE FormatVotes(Tail(entries), Append(acc, FormatVote(Head(entries))))

\* Lines 123-140: votes_list
VotesList(roll_call) ==
    LET votes_array == VotesArray(roll_call)
    IN  IF IsList(votes_array) THEN FormatVotes(votes_array.list, <<>>)
        ELSE IF IsDict(votes_array)
             THEN (IF DOMAIN votes_array.dict = {} THEN Ok(<<>>)
                   ELSE Raise(NoGet(PyStr("key"))))
        ELSE IF IsStr(votes_array)
             THEN (IF votes_array.str = "" THEN Ok(<<>>)
                   ELSE Raise(NoGet(votes_array)))
        ELSE Raise(Exc("TypeError",
                       "'" \o TypeName(votes_array) \o "' object is not iterable"))

\* Mutant: the date is looked up under the output's key
NormalizeRecordDateKey(roll_call) ==
    IF ~IsDict(roll_call) THEN Raise(NoGet(roll_call))
    ELSE LET votes == VotesList(roll_call)
         IN  IF ~votes.ok THEN votes
             ELSE Ok([sequence_number |-> DictGet(roll_call, "sequence_number", PyInt(0)),
                      date |-> DictGet(roll_call, "date", PyStr("")),
                      description |-> DictGet(roll_call, "motion", PyStr("")),
                      yea_votes |-> DictGet(roll_call, "yea_count", PyInt(0)),
                      nay_votes |-> DictGet(roll_call, "nay_count", PyInt(0)),
                      absent_votes |-> DictGet(roll_call, "absent_count", PyInt(0)),
                      excused_votes |-> DictGet(roll_call, "excused_count", PyInt(0)),
                      votes |-> votes.val])

\* Lines 116-151: the body of the loop for one record
NormalizeRecord(roll_call) ==
    IF ~IsDict(roll_call) THEN Raise(NoGet(roll_call))
    ELSE LET votes == VotesList(roll_call)
         IN  IF ~votes.ok THEN votes
             ELSE Ok([sequence_number |-> DictGet(roll_call, "sequence_number", PyInt(0)),
                      date |-> DictGet(roll_call, "vote_date", PyStr("")),
                      description |-> DictGet(roll_call, "motion", PyStr("")),
                      yea_votes |-> DictGet(roll_call, "yea_count", PyInt(0)),
                      nay_votes |-> DictGet(roll_call, "nay_count", PyInt(0)),
                      absent_votes |-> DictGet(roll_call, "absent_count", PyInt(0)),
                      excused_votes |-> DictGet(roll_call, "excused_count", PyInt(0)),
                      votes |-> votes.val])

(***************************************************************************)
(* The sort of line 154                                                    *)
(***************************************************************************)
\* key=lambda x: x.get("sequence_number", 0)
SortKey(x) == x.sequence_number

\* Mutant: x goes in front of the elements whose key equals its own
RECURSIVE InsertSortedBeforeEqual(_, _)
InsertSortedBeforeEqual(sorted, x) ==
    IF sorted = <<>> THEN <<x>>
    ELSE IF SortKey(x).int <= SortKey(Head(sorted)).int THEN <<x>> \o sorted
    ELSE <<Head(sorted)>> \o InsertSortedBeforeEqual(Tail(sorted), x)

\* Insert x behind every element whose key is not greater (list.sort is stable)
RECURSIVE InsertSorted(_, _)
InsertSorted(sorted, x) ==
    IF sorted = <<>> THEN <<x>>
    ELSE IF SortKey(x).int < SortKey(Head(sorted)).int THEN <<x>> \o sorted
    ELSE <<Head(sorted)>> \o InsertSorted(Tail(sorted), x)

RECURSIVE SortFrom(_, _)
SortFrom(rest, sorted) ==
    IF rest = <<>> THEN sorted
    ELSE SortFrom(Tail(rest), InsertSorted(sorted, Head(rest)))

\* a < b between keys that are not both int
NotComparable(a, b) ==
    Exc("TypeError", "'<' not supported between instances of '"
                     \o TypeName(a) \o "' and '" \o TypeName(b) \o "'")

\* Mutant: the list is returned in the order it was built
SortRollCallsSkipped(rcs) == Ok(rcs)

\* Mutant: the records are put in order but each position keeps the votes it had
SortRollCallsVotesStay(rcs) ==
    LET bad == {i \in 2..Len(rcs) : ~IsInt(SortKey(rcs[i])) \/ ~IsInt(SortKey(rcs[i - 1]))}
        sorted == SortFrom(rcs, <<>>)
    IN  IF bad = {}
        THEN Ok([i \in 1..Len(rcs) |-> [sorted[i] EXCEPT !.votes = rcs[i].votes]])
        ELSE LET i == CHOOSE j \in bad : \A k \in bad : j <= k
             IN  Raise(NotComparable(SortKey(rcs[i]), SortKey(rcs[i - 1])))

\* list.sort(key=...): the first comparison that involves a key that is no int fails;
\* it compares the later element's key with the earlier one's
SortRollCalls(rcs) ==
    LET bad == {i \in 2..Len(rcs) : ~IsInt(SortKey(rcs[i])) \/ ~IsInt(SortKey(rcs[i - 1]))}
    IN  IF bad = {} THEN Ok(SortFrom(rcs, <<>>))
        ELSE LET i == CHOOSE j \in bad : \A k \in bad : j <= k
             IN  Raise(NotComparable(SortKey(rcs[i]), SortKey(rcs[i - 1])))

(***************************************************************************)
(* Inputs and the collaborators' behaviours                                *)
(***************************************************************************)
\* All character sequences over chars of length at most n
StringsUpTo(chars, n) == UNION {[1..k -> chars] : k \in 0..n}

BillChars == {"H", "1", " "}
ParseChars == {"H", "S", "0", "1", " ", "\t", "²"}
Identifiers == StringsUpTo(BillChars, MaxLen)
ParseIdentifiers == StringsUpTo(ParseChars, MaxParseLen)

\* The caller's biennium: absent, empty, or given
Bienniums == {PyNone, PyStr(""), PyStr("2023-24")}

\* get_current_biennium(): returns, or raises
ResolverOutcomes ==
    {Ok(PyStr("2025-26")),
     Raise(Exc("Exception", "no session data")),
     Raise(Exc("ValueError", "bad date"))}

Vote1 ==
    PyDict([name |-> PyStr("Smith, John"), vote_value |-> PyStr("Yea"),
            district |-> PyInt(1), party |-> PyStr("D")])
Vote2 == PyDict([name |-> PyStr("Doe, Jane"), vote_value |-> PyStr("Nay")])

\* A record as in the docstring of WSLClient.get_roll_calls, votes under array_of_vote
RecWrapped ==
    PyDict([sequence_number |-> PyInt(2), vote_date |-> PyStr("2023-03-15"),
            motion |-> PyStr("Final Passage"), yea_count |-> PyInt(65),
            nay_count |-> PyInt(33), absent_count |-> PyInt(0),
            excused_count |-> PyInt(0),
            votes |-> PyDict([array_of_vote |-> PyList(<<Vote1, Vote2>>)])])
\* The same record with its votes as a bare list
RecBare ==
    PyDict([sequence_number |-> PyInt(2), vote_date |-> PyStr("2023-03-15"),
            motion |-> PyStr("Final Passage"), yea_count |-> PyInt(65),
            nay_count |-> PyInt(33), absent_count |-> PyInt(0),
            excused_count |-> PyInt(0),
            votes |-> PyList(<<Vote1, Vote2>>)])
\* An earlier roll call without a votes field
RecEarly ==
    PyDict([sequence_number |-> PyInt(0), vote_date |-> PyStr("2023-03-01"),
            motion |-> PyStr("Second Reading"), yea_count |-> PyInt(50)])
\* A record without any field
RecBlank == EmptyDict
\* A record whose sequence_number and votes are None
RecNoSeq == PyDict([sequence_number |-> PyNone, votes |-> PyNone])
\* A malformed record: no mapping
RecMalformed == PyStr("garbage")

Records == {RecWrapped, RecBare, RecEarly, RecBlank, RecNoSeq, RecMalformed}

RecordLists == UNION {[1..k -> Records] : k \in 0..MaxRecords}

\* wsl_client.get_roll_calls as get_roll_calls sees it: any return value, or a raise
ShimOutcomes ==
    {Ok(PyNone), Ok(PyInt(5))}
    \cup {Ok(PyList(l)) : l \in RecordLists}
    \cup {Raise(Exc("Exception", "API Error")), Raise(Exc("ValueError", "bad payload"))}

\* The shim finding nothing
EmptyOutcomes == {Ok(PyNone), Ok(PyList(<<>>))}

\* Votes of the normalization specification: a district that is an int of one digit,
\* of two digits, None, or missing; and an entry that is no mapping
VoteTen ==
    PyDict([name |-> PyStr("Lee, Ann"), vote_value |-> PyStr("Excused"),
            district |-> PyInt(10), party |-> PyStr("R")])
VoteNullDistrict ==
    PyDict([name |-> PyStr("Roe, Sam"), vote_value |-> PyStr("Absent"),
            district |-> PyNone])
VoteMalformed == PyStr("x")
Votes == {Vote1, Vote2, VoteTen, VoteNullDistrict, VoteMalformed}
VoteLists == UNION {[1..k -> Votes] : k \in 0..MaxVotes}

\* The shapes of a record's votes field that lines 124-132 tell apart
VotesShapes ==
    {PyList(v) : v \in VoteLists}
    \cup {PyDict([array_of_vote |-> PyList(v)]) : v \in VoteLists}
    \cup {EmptyDict, PyNone, PyStr("n/a"), PyDict([array_of_vote |-> PyNone])}

\* The fields of a fetched record besides votes, none at its default
SourceFields ==
    [sequence_number |-> PyInt(3), vote_date |-> PyStr("2023-04-01"),
     motion |-> PyStr("Third Reading"), yea_count |-> PyInt(60),
     nay_count |-> PyInt(35), absent_count |-> PyInt(1), excused_count |-> PyInt(2)]

\* Records with any of the fields missing
PartialRecords ==
    {PyDict([k \in present |-> SourceFields[k]]) : present \in SUBSET DOMAIN SourceFields}

\* d with d[k] = v
DictSet(d, k, v) ==
    PyDict([j \in DOMAIN d.dict \cup {k} |-> IF j = k THEN v ELSE d.dict[j]])

NormalizeRecords ==
    PartialRecords \cup {DictSet(r, "votes", v) : r \in PartialRecords, v \in VotesShapes}

\* The shim returning one record
NormalizeOutcomes == {Ok(PyList(<<r>>)) : r \in NormalizeRecords}
NormalizeIdentifiers == {<<"1">>, <<"H", " ", "1">>}

\* Two calls of get_roll_calls in flight at once
CallIds == {1, 2}
ConcurrentIdentifiers == {<<"1">>, <<"H", " ", "2">>, <<"H">>}
ConcurrentBienniums == {PyNone, PyStr("2023-24")}
\* What the provider answers a concurrent call
ConcurrentOutcomes ==
    {Raise(Exc("Exception", "API Error")),
     Ok(PyNone),
     Ok(PyDict([array_of_roll_call |-> PyList(<<RecBare, RecEarly>>)])),
     Ok(PyDict([array_of_roll_call |-> PyList(<<RecMalformed>>)]))}

\* The collaborator has not been called
Unasked == Raise(Exc("Exception", "not called"))

\* The local variables of one call (its frame), before its first statement
StartLocals(bn, bi) ==
    [pc |-> "resolve", bill_number |-> bn, biennium |-> bi, bill_num |-> PyNone,
     roll_calls_data |-> PyNone, formatted_roll_calls |-> <<>>, idx |-> 0,
     logged |-> <<>>, result |-> NoResult, escaped |-> NoException]
IdleLocals == [StartLocals(<<>>, PyNone) EXCEPT !.pc = "idle"]

\* A call: the arguments it was given, what its collaborators answered it, its frame
IdleCall ==
    [bill_number |-> <<>>, biennium |-> PyNone, resolver |-> Unasked,
     provider |-> Unasked, locals |-> IdleLocals]

(***************************************************************************)
(* get_roll_calls, step by step                                            *)
(***************************************************************************)
Init ==
    /\ pc = "idle"
    /\ bill_number = <<>>
    /\ biennium_arg = PyNone
    /\ biennium = PyNone
    /\ bill_num_str = <<>>
    /\ bill_num = PyNone
    /\ roll_calls_data = PyNone
    /\ formatted_roll_calls = <<>>
    /\ idx = 0
    /\ result = NoResult
    /\ escaped = NoException
    /\ raised = NoException
    /\ resolver_calls = 0
    /\ shim_calls = <<>>
    /\ upstream = NoUpstream
    /\ log = <<>>
    /\ calls = [c \in CallIds |-> IdleCall]

\* The step ends normally and control passes to the step at next
Continue(next) ==
    /\ pc' = next
    /\ UNCHANGED <<result, escaped, raised>>

\* A return statement inside the try block
ReturnEnvelope(envelope) ==
    /\ pc' = "done"
    /\ result' = envelope
    /\ UNCHANGED <<escaped, raised>>

\* An exception e raised inside the try block of lines 65-167: the except clauses
\* return an envelope, or e leaves the function
Raised(e) ==
    LET handled == ExceptClauses(e, bill_number)
    IN  /\ pc' = "done"
        /\ raised' = [at |-> pc, exc |-> e]
        /\ result' = IF handled.ok THEN handled.val ELSE NoResult
        /\ escaped' = IF handled.ok THEN NoException ELSE handled.exc

\* Line 16: a caller calls get_roll_calls(bill_number, biennium)
Call(identifiers, bienniums) ==
    /\ pc = "idle"
    /\ bill_number' \in identifiers
    /\ biennium_arg' \in bienniums
    /\ biennium' = biennium_arg'
    /\ pc' = "resolve"
    /\ UNCHANGED <<bill_num_str, bill_num, roll_calls_data, formatted_roll_calls, idx,
                   result, escaped, raised, resolver_calls, shim_calls, upstream, log,
                   calls>>

\* Mutant: the resolver is asked only when biennium is None
ResolveBienniumNoneOnly ==
    /\ pc = "resolve"
    /\ UNCHANGED <<bill_number, biennium_arg, bill_num_str, bill_num, roll_calls_data,
                   formatted_roll_calls, idx, shim_calls,
                   upstream, log, calls>>
    /\ IF IsNone(biennium)
       THEN /\ resolver_calls' = resolver_calls + 1
            /\ \E outcome \in ResolverOutcomes :
                 IF outcome.ok
                 THEN /\ biennium' = outcome.val
                      /\ Continue("parse")
                 ELSE /\ Raised(outcome.exc)
                      /\ UNCHANGED biennium
       ELSE /\ Continue("parse")
            /\ UNCHANGED <<biennium, resolver_calls>>

\* Lines 67-68
ResolveBiennium ==
    /\ pc = "resolve"
    /\ UNCHANGED <<bill_number, biennium_arg, bill_num_str, bill_num, roll_calls_data,
                   formatted_roll_calls, idx, shim_calls,
                   upstream, log, calls>>
    /\ IF ~Truthy(biennium)
       THEN /\ resolver_calls' = resolver_calls + 1
            /\ \E outcome \in ResolverOutcomes :
                 IF outcome.ok
                 THEN /\ biennium' = outcome.val
                      /\ Continue("parse")
                 ELSE /\ Raised(outcome.exc)
                      /\ UNCHANGED biennium
       ELSE /\ Continue("parse")
            /\ UNCHANGED <<biennium, resolver_calls>>

\* Lines 71-90
ParseIdentifier ==
    /\ pc = "parse"
    /\ UNCHANGED <<bill_number, biennium_arg, biennium, roll_calls_data,
                   formatted_roll_calls, idx, resolver_calls, shim_calls,
                   upstream, log, calls>>
    /\ bill_num_str' = BillNumStr(bill_number)
    /\ IF bill_num_str' = <<>>
       THEN /\ ReturnEnvelope(FormatErrorEnvelope(bill_number))
            /\ UNCHANGED bill_num
       ELSE LET parsed == ParseInt(bill_num_str')
            IN  IF parsed.ok
                THEN /\ bill_num' = PyInt(parsed.val)
                     /\ Continue("fetch")
                ELSE /\ Raised(parsed.exc)
                     /\ UNCHANGED bill_num

\* Line 95
Fetch(outcomes) ==
    /\ pc = "fetch"
    /\ UNCHANGED <<bill_number, biennium_arg, biennium, bill_num_str, bill_num,
                   formatted_roll_calls, idx, resolver_calls, upstream, log, calls>>
    /\ shim_calls' = Append(shim_calls, [biennium |-> biennium, bill_number |-> bill_num])
    /\ \E outcome \in outcomes :
         IF outcome.ok
         THEN /\ roll_calls_data' = outcome.val
              /\ Continue("check")
         ELSE /\ Raised(outcome.exc)
              /\ UNCHANGED roll_calls_data

\* len(v)
PyLen(v) ==
    IF IsList(v) THEN Ok(Len(v.list))
    ELSE IF IsDict(v) THEN Ok(Cardinality(DOMAIN v.dict))
    ELSE Raise(Exc("TypeError", "object of type '" \o TypeName(v) \o "' has no len()"))

\* Mutant: only len(roll_calls_data) == 0 is tested
IsEmptyResultLenOnly(v) ==
    LET n == PyLen(v) IN IF n.ok THEN Ok(n.val = 0) ELSE n

\* Line 98: not roll_calls_data or len(roll_calls_data) == 0
IsEmptyResult(v) ==
    IF ~Truthy(v) THEN Ok(TRUE)
    ELSE LET n == PyLen(v) IN IF n.ok THEN Ok(n.val = 0) ELSE n

\* Lines 98-113
CheckEmpty ==
    /\ pc = "check"
    /\ UNCHANGED <<bill_number, biennium_arg, biennium, bill_num_str, bill_num,
                   roll_calls_data, formatted_roll_calls, idx, resolver_calls,
                   shim_calls,
                   upstream, log, calls>>
    /\ LET empty == IsEmptyResult(roll_calls_data)
       IN  IF ~empty.ok THEN Raised(empty.exc)
           ELSE IF empty.val THEN ReturnEnvelope(EmptyEnvelope(bill_number, biennium))
           ELSE Continue("normalize")

\* Mutant: a record whose normalization fails is left out and the loop goes on
NormalizeNextSkipping ==
    /\ pc = "normalize"
    /\ UNCHANGED <<bill_number, biennium_arg, biennium, bill_num_str, bill_num,
                   roll_calls_data, resolver_calls, shim_calls, upstream, log, calls>>
    /\ LET formatted == NormalizeRecord(roll_calls_data.list[idx + 1])
       IN  /\ formatted_roll_calls' =
                  IF formatted.ok THEN Append(formatted_roll_calls, formatted.val)
                  ELSE formatted_roll_calls
           /\ idx' = idx + 1
           /\ Continue(IF idx' = Len(roll_calls_data.list) THEN "sort" ELSE "normalize")

\* Mutant: the loop body takes the votes out of the fetched record (pop instead of get)
NormalizeNextPopsVotes ==
    /\ pc = "normalize"
    /\ UNCHANGED <<bill_number, biennium_arg, biennium, bill_num_str, bill_num,
                   resolver_calls, shim_calls, upstream, log, calls>>
    /\ LET roll_call == roll_calls_data.list[idx + 1]
           formatted == NormalizeRecord(roll_call)
       IN  IF formatted.ok
           THEN /\ formatted_roll_calls' = Append(formatted_roll_calls, formatted.val)
                /\ roll_calls_data' =
                       PyList([roll_calls_data.list EXCEPT ![idx + 1] =
                                  PyDict([k \in DOMAIN roll_call.dict \ {"votes"} |->
                                             roll_call.dict[k]])])
                /\ idx' = idx + 1
                /\ Continue(IF idx' = Len(roll_calls_data.list) THEN "sort" ELSE "normalize")
           ELSE /\ Raised(formatted.exc)
                /\ UNCHANGED <<roll_calls_data, formatted_roll_calls, idx>>

\* Lines 115-151: one iteration of the loop over roll_calls_data
NormalizeNext ==
    /\ pc = "normalize"
    /\ UNCHANGED <<bill_number, biennium_arg, biennium, bill_num_str, bill_num,
                   roll_calls_data, resolver_calls, shim_calls,
                   upstream, log, calls>>
    /\ LET formatted == NormalizeRecord(roll_calls_data.list[idx + 1])
       IN  IF formatted.ok
           THEN /\ formatted_roll_calls' = Append(formatted_roll_calls, formatted.val)
                /\ idx' = idx + 1
                /\ Continue(IF idx' = Len(roll_calls_data.list) THEN "sort" ELSE "normalize")
           ELSE /\ Raised(formatted.exc)
                /\ UNCHANGED <<formatted_roll_calls, idx>>

\* Lines 154-167
SortAndReturn ==
    /\ pc = "sort"
    /\ UNCHANGED <<bill_number, biennium_arg, biennium, bill_num_str, bill_num,
                   roll_calls_data, idx, resolver_calls, shim_calls,
                   upstream, log, calls>>
    /\ LET sorted == SortRollCalls(formatted_roll_calls)
       IN  IF sorted.ok
           THEN /\ formatted_roll_calls' = sorted.val
                /\ ReturnEnvelope(SuccessEnvelope(bill_number, biennium, sorted.val))
           ELSE /\ Raised(sorted.exc)
                /\ UNCHANGED formatted_roll_calls

\* The call is over: its frame is discarded, nothing of it is kept
Return ==
    /\ pc = "done"
    /\ pc' = "idle"
    /\ bill_number' = <<>>
    /\ biennium_arg' = PyNone
    /\ biennium' = PyNone
    /\ bill_num_str' = <<>>
    /\ bill_num' = PyNone
    /\ roll_calls_data' = PyNone
    /\ formatted_roll_calls' = <<>>
    /\ idx' = 0
    /\ result' = NoResult
    /\ escaped' = NoException
    /\ raised' = NoException
    /\ resolver_calls' = 0
    /\ shim_calls' = <<>>
    /\ upstream' = NoUpstream
    /\ log' = <<>>
    /\ UNCHANGED calls

(***************************************************************************)
(* WSLClient (wsl_client.py): every operation is one try statement around  *)
(* a provider call and the unwrapping of one field of its response         *)
(***************************************************************************)
\* get_roll_calls (lines 317-333), the pattern of the sequence-valued operations
GetRollCallsOp ==
    [name |-> "get_roll_calls", field |-> "array_of_roll_call",
     missing |-> PyList(<<>>), what |-> "roll calls"]
\* get_session_law_by_bill (lines 417-435), the pattern of the single-record operations
GetSessionLawByBillOp ==
    [name |-> "get_session_law_by_bill", field |-> "session_law",
     missing |-> PyNone, what |-> "session law"]
Operations == {GetRollCallsOp, GetSessionLawByBillOp}

\* Lines 332 and 434: the message of logger.error
ErrorLine(op, b, n, e) ==
    "Failed to get " \o op.what \o " for bill " \o Format(n) \o " in " \o Format(b)
    \o ": " \o e.msg

\* Mutant: a response without the field unwraps to None in every operation
UnwrapMissingIsNone(op, res) ==
    IF ~Truthy(res) THEN Ok(PyNone)
    ELSE IF ~IsDict(res) THEN Raise(NoGet(res))
    ELSE Ok(DictGet(res, op.field, PyNone))

\* Lines 330 and 432: result.get(<field>, <default>) if result else None
Unwrap(op, res) ==
    IF ~Truthy(res) THEN Ok(PyNone)
    ELSE IF ~IsDict(res) THEN Raise(NoGet(res))
    ELSE Ok(DictGet(res, op.field, op.missing))

\* Mutant: there is no except clause around the provider call
ShimOperationUnguarded(op, b, n, outcome) ==
    LET unwrapped == IF outcome.ok THEN Unwrap(op, outcome.val) ELSE outcome
    IN  IF unwrapped.ok
        THEN [returned |-> unwrapped.val, logged |-> <<>>, escaped |-> NoException,
              invocations |-> 1]
        ELSE [returned |-> NoResult, logged |-> <<>>, escaped |-> unwrapped.exc,
              invocations |-> 1]

\* Mutant: the except clause logs the failure and raises it again
ShimOperationReraises(op, b, n, outcome) ==
    LET unwrapped == IF outcome.ok THEN Unwrap(op, outcome.val) ELSE outcome
    IN  IF unwrapped.ok
        THEN [returned |-> unwrapped.val, logged |-> <<>>, escaped |-> NoException,
              invocations |-> 1]
        ELSE [returned |-> NoResult,
              logged |-> <<ErrorLine(op, b, n, unwrapped.exc)>>,
              escaped |-> unwrapped.exc,
              invocations |-> 1]

\* Mutant: the client remembers its latest answer and gives it again to a call with the
\* same arguments, without asking the provider
ShimOperationCached(op, b, n, outcome) ==
    LET unwrapped == IF outcome.ok THEN Unwrap(op, outcome.val) ELSE outcome
    IN  IF /\ upstream # NoUpstream
           /\ upstream.op = op.name
           /\ upstream.biennium = b
           /\ upstream.bill_number = n
        THEN [returned |-> upstream.returned, logged |-> <<>>, escaped |-> NoException,
              invocations |-> 0]
        ELSE IF unwrapped.ok
        THEN [returned |-> unwrapped.val, logged |-> <<>>, escaped |-> NoException,
              invocations |-> 1]
        ELSE [returned |-> PyNone,
              logged |-> <<ErrorLine(op, b, n, unwrapped.exc)>>,
              escaped |-> NoException,
              invocations |-> 1]

\* Lines 328-333 and 430-435: the operation called with (b, n) while the provider
\* call has the given outcome; what it returns, what it logs, what escapes it, and
\* how many times it calls the provider (lines 329 and 431, outside any loop)
ShimOperation(op, b, n, outcome) ==
    LET unwrapped == IF outcome.ok THEN Unwrap(op, outcome.val) ELSE outcome
    IN  IF unwrapped.ok
        THEN [returned |-> unwrapped.val, logged |-> <<>>, escaped |-> NoException,
              invocations |-> 1]
        ELSE IF unwrapped.exc.kind \in ExceptionClasses
        THEN [returned |-> PyNone,
              logged |-> <<ErrorLine(op, b, n, unwrapped.exc)>>,
              escaped |-> NoException,
              invocations |-> 1]
        ELSE [returned |-> NoResult, logged |-> <<>>, escaped |-> unwrapped.exc,
              invocations |-> 1]

\* A session law record
SessionLaw ==
    PyDict([chapter_number |-> PyInt(12), effective_date |-> PyStr("2023-07-23")])

\* The values the provider puts into the field an operation unwraps
FieldValues(op) ==
    IF op = GetRollCallsOp THEN {PyNone} \cup {PyList(l) : l \in RecordLists}
    ELSE {PyNone, SessionLaw}

\* The provider function of an operation raises, or returns nothing, or a response
\* without the field, or something that is no mapping
PlainOutcomes ==
    {Raise(Exc("Exception", "API Error")),
     Raise(Exc("ValueError", "bad payload")),
     Ok(PyNone),
     Ok(EmptyDict),
     Ok(PyDict([message |-> PyStr("not found")])),
     Ok(PyList(<<>>)),
     Ok(PyList(<<RecEarly>>)),
     Ok(PyStr("<html>"))}

\* A response with the field of the operation
Response(op, v) == Ok(PyDict([k \in {op.field} |-> v]))

\* The provider function of an operation, as its outcome matters to get_roll_calls
ProviderOutcomes(op) == PlainOutcomes \cup {Response(op, v) : v \in FieldValues(op)}

\* The values under the field in a direct run of an operation: the operation does not
\* look into them
DirectFieldValues(op) ==
    IF op = GetRollCallsOp
    THEN {PyNone, PyList(<<>>), PyList(<<RecEarly>>), PyList(<<RecWrapped, RecEarly>>)}
    ELSE {PyNone, SessionLaw}

\* The provider function of an operation in a direct run
DirectOutcomes(op) == PlainOutcomes \cup {Response(op, v) : v \in DirectFieldValues(op)}

\* What is kept of a run once a later run has taken its place
Earlier(run) ==
    IF run = NoUpstream THEN NoUpstream
    ELSE [op |-> run.op, biennium |-> run.biennium, bill_number |-> run.bill_number,
          provider |-> run.provider, returned |-> run.returned]

\* The record of one run of an operation, and of the run before it
UpstreamRun(op, b, n, outcome) ==
    LET run == ShimOperation(op, b, n, outcome)
    IN  [op |-> op.name, biennium |-> b, bill_number |-> n, provider |-> outcome,
         returned |-> run.returned, escaped |-> run.escaped, logged |-> run.logged,
         invocations |-> run.invocations, previous |-> Earlier(upstream)]

\* Line 95 with the real WSLClient behind it (lines 328-333)
FetchThroughShim ==
    /\ pc = "fetch"
    /\ UNCHANGED <<bill_number, biennium_arg, biennium, bill_num_str, bill_num,
                   formatted_roll_calls, idx, resolver_calls, calls>>
    /\ shim_calls' = Append(shim_calls, [biennium |-> biennium, bill_number |-> bill_num])
    /\ \E outcome \in ProviderOutcomes(GetRollCallsOp) :
         /\ upstream' = UpstreamRun(GetRollCallsOp, biennium, bill_num, outcome)
         /\ log' = log \o upstream'.logged
         /\ IF upstream'.escaped = NoException
            THEN /\ roll_calls_data' = upstream'.returned
                 /\ Continue("check")
            ELSE /\ Raised(upstream'.escaped)
                 /\ UNCHANGED roll_calls_data

\* The arguments of a direct call of an operation
DirectBienniums == {PyStr("2023-24"), PyStr("2025-26")}
DirectBillNumbers == {PyInt(1), PyInt(1234)}

\* A caller other than get_roll_calls runs an operation of the client
CallShim ==
    /\ pc = "idle"
    /\ \E op \in Operations, b \in DirectBienniums, n \in DirectBillNumbers :
         \E outcome \in DirectOutcomes(op) :
           /\ upstream' = UpstreamRun(op, b, n, outcome)
           /\ log' = upstream'.logged
    /\ pc' = "shim_done"
    /\ UNCHANGED <<bill_number, biennium_arg, biennium, bill_num_str, bill_num,
                   roll_calls_data, formatted_roll_calls, idx, result, escaped, raised,
                   resolver_calls, shim_calls, calls>>

\* The caller has its value; the record of the run and its log lines stay until the
\* next run
ShimReturn ==
    /\ pc = "shim_done"
    /\ pc' = "idle"
    /\ UNCHANGED <<bill_number, biennium_arg, biennium, bill_num_str, bill_num,
                   roll_calls_data, formatted_roll_calls, idx, result, escaped, raised,
                   resolver_calls, shim_calls, upstream, log, calls>>

(***************************************************************************)
(* Concurrent calls of get_roll_calls.  A call's state is the frame of its *)
(* local variables; the calls share the module-level wsl_client (line 13), *)
(* an object without attributes (wsl_client.py lines 77-82), and the log.  *)
(***************************************************************************)
\* A return statement in the frame f
FrameReturns(f, envelope) == [f EXCEPT !.pc = "done", !.result = envelope]

\* An exception raised in the try block of the frame f
FrameRaises(f, e) ==
    LET handled == ExceptClauses(e, f.bill_number)
    IN  [f EXCEPT !.pc = "done",
                  !.result = IF handled.ok THEN handled.val ELSE NoResult,
                  !.escaped = IF handled.ok THEN NoException ELSE handled.exc]

\* The next step of get_roll_calls in the frame f, when the resolver would answer ro
\* and the provider po
Advance(f, ro, po) ==
    CASE f.pc = "resolve" ->
           IF Truthy(f.biennium) THEN [f EXCEPT !.pc = "parse"]
           ELSE IF ro.ok THEN [f EXCEPT !.pc = "parse", !.biennium = ro.val]
           ELSE FrameRaises(f, ro.exc)
      [] f.pc = "parse" ->
           LET digits == BillNumStr(f.bill_number)
               parsed == ParseInt(digits)
           IN  IF digits = <<>> THEN FrameReturns(f, FormatErrorEnvelope(f.bill_number))
               ELSE IF parsed.ok
               THEN [f EXCEPT !.pc = "fetch", !.bill_num = PyInt(parsed.val)]
               ELSE FrameRaises(f, parsed.exc)
      [] f.pc = "fetch" ->
           LET run == ShimOperation(GetRollCallsOp, f.biennium, f.bill_num, po)
           IN  IF run.escaped = NoException
               THEN [f EXCEPT !.pc = "check", !.roll_calls_data = run.returned,
                              !.logged = run.logged]
               ELSE [FrameRaises(f, run.escaped) EXCEPT !.logged = run.logged]
      [] f.pc = "check" ->
           LET empty == IsEmptyResult(f.roll_calls_data)
           IN  IF ~empty.ok THEN FrameRaises(f, empty.exc)
               ELSE IF empty.val
               THEN FrameReturns(f, EmptyEnvelope(f.bill_number, f.biennium))
               ELSE [f EXCEPT !.pc = "normalize"]
      [] f.pc = "normalize" ->
           LET formatted == NormalizeRecord(f.roll_calls_data.list[f.idx + 1])
           IN  IF ~formatted.ok THEN FrameRaises(f, formatted.exc)
               ELSE [f EXCEPT !.formatted_roll_calls = Append(@, formatted.val),
                              !.idx = @ + 1,
                              !.pc = IF f.idx + 1 = Len(f.roll_calls_data.list)
                                     THEN "sort" ELSE "normalize"]
      [] f.pc = "sort" ->
           LET sorted == SortRollCalls(f.formatted_roll_calls)
           IN  IF ~sorted.ok THEN FrameRaises(f, sorted.exc)
               ELSE FrameReturns([f EXCEPT !.formatted_roll_calls = sorted.val],
                                 SuccessEnvelope(f.bill_number, f.biennium, sorted.val))
      [] OTHER -> f

\* Mutant: the local variables are module-level variables, one set for all calls
LocalsShared(c) == calls[1].locals

\* The frame in which call c reads and writes its local variables
Locals(c) == calls[c].locals

\* Two calls arrive
Arrive ==
    /\ pc = "idle"
    /\ \A c \in CallIds : calls[c].locals.pc = "idle"
    /\ \E bns \in [CallIds -> ConcurrentIdentifiers],
          bis \in [CallIds -> ConcurrentBienniums] :
         calls' = [c \in CallIds |->
                      [IdleCall EXCEPT !.bill_number = bns[c], !.biennium = bis[c],
                                       !.locals = StartLocals(bns[c], bis[c])]]
    /\ UNCHANGED <<pc, bill_number, biennium_arg, biennium, bill_num_str, bill_num,
                   roll_calls_data, formatted_roll_calls, idx, result, escaped, raised,
                   resolver_calls, shim_calls, upstream, log>>

\* Call c takes its next step
StepCall(c) ==
    /\ Locals(c).pc \notin {"idle", "done"}
    /\ LET f == Locals(c)
           asks_resolver == f.pc = "resolve" /\ ~Truthy(f.biennium)
           asks_provider == f.pc = "fetch"
       IN  \E ro \in IF asks_resolver THEN ResolverOutcomes ELSE {calls[c].resolver},
              po \in IF asks_provider THEN ConcurrentOutcomes ELSE {calls[c].provider} :
             /\ calls' = [calls EXCEPT ![c].locals = Advance(f, ro, po),
                                       ![c].resolver = ro,
                                       ![c].provider = po]
             /\ log' = IF asks_provider THEN log \o calls'[c].locals.logged ELSE log
    /\ UNCHANGED <<pc, bill_number, biennium_arg, biennium, bill_num_str, bill_num,
                   roll_calls_data, formatted_roll_calls, idx, result, escaped, raised,
                   resolver_calls, shim_calls, upstream>>

\* Both calls have returned
Depart ==
    /\ \A c \in CallIds : calls[c].locals.pc = "done"
    /\ calls' = [c \in CallIds |-> IdleCall]
    /\ log' = <<>>
    /\ UNCHANGED <<pc, bill_number, biennium_arg, biennium, bill_num_str, bill_num,
                   roll_calls_data, formatted_roll_calls, idx, result, escaped, raised,
                   resolver_calls, shim_calls, upstream>>

Next ==
    \/ Call(Identifiers, Bienniums)
    \/ ResolveBiennium
    \/ ParseIdentifier
    \/ Fetch(ShimOutcomes)
    \/ CheckEmpty
    \/ NormalizeNext
    \/ SortAndReturn
    \/ Return

Spec == Init /\ [][Next]_vars

\* Identifier parsing in depth: longer identifiers over more kinds of character,
\* against a shim that finds nothing
NextParse ==
    \/ Call(ParseIdentifiers, Bienniums)
    \/ ResolveBiennium
    \/ ParseIdentifier
    \/ Fetch(EmptyOutcomes)
    \/ CheckEmpty
    \/ Return

SpecParse == Init /\ [][NextParse]_vars

\* Normalization in depth: one fetched record with any of its fields missing and its
\* votes in every shape
NextNormalize ==
    \/ Call(NormalizeIdentifiers, Bienniums)
    \/ ResolveBiennium
    \/ ParseIdentifier
    \/ Fetch(NormalizeOutcomes)
    \/ CheckEmpty
    \/ NormalizeNext
    \/ SortAndReturn
    \/ Return

SpecNormalize == Init /\ [][NextNormalize]_vars

\* The client's operations on their own
NextShim ==
    \/ CallShim
    \/ ShimReturn

SpecShim == Init /\ [][NextShim]_vars

\* Two calls interleaved step by step
NextConcurrent ==
    \/ Arrive
    \/ \E c \in CallIds : StepCall(c)
    \/ Depart

SpecConcurrent == Init /\ [][NextConcurrent]_vars

\* get_roll_calls with the real client between it and the provider
NextEndToEnd ==
    \/ Call(Identifiers, Bienniums)
    \/ ResolveBiennium
    \/ ParseIdentifier
    \/ FetchThroughShim
    \/ CheckEmpty
    \/ NormalizeNext
    \/ SortAndReturn
    \/ Return

SpecEndToEnd == Init /\ [][NextEndToEnd]_vars

(***************************************************************************)
(* Claims                                                                  *)
(***************************************************************************)
Returned == pc = "done" /\ escaped = NoException
Failed == raised # NoException
Fetched == shim_calls # <<>> /\ ~(Failed /\ raised.at = "fetch")

\* C1: whatever the input and whatever the shim and the resolver do, the value
\* get_roll_calls returns is a mapping with success, with metadata holding api_call,
\* and either data without error and success true, or a non-empty error without
\* data and success false.
C1_EnvelopeInvariant ==
    pc = "done" =>
        /\ escaped = NoException
        /\ {"success", "metadata"} \subseteq DOMAIN result
        /\ "api_call" \in DOMAIN result.metadata
        /\ \/ /\ "data" \in DOMAIN result
              /\ "error" \notin DOMAIN result
              /\ result.success = TRUE
           \/ /\ "error" \in DOMAIN result
              /\ result.error # ""
              /\ "data" \notin DOMAIN result
              /\ result.success = FALSE

C1_Witness ==
    /\ Returned
    /\ bill_number = <<"H">>
    /\ biennium_arg = PyNone
    /\ "error" \in DOMAIN result
    /\ shim_calls = <<>>
    /\ ~Failed

\* C2: no exception leaves get_roll_calls: once a step has raised, the call is over
\* and has returned an envelope with success false.
C2_NothingPropagates ==
    /\ escaped = NoException
    /\ Failed => /\ pc = "done"
                 /\ "success" \in DOMAIN result
                 /\ result.success = FALSE

C2_Witness ==
    /\ Returned
    /\ Failed
    /\ raised.at = "sort"
    /\ raised.exc.kind = "TypeError"
    /\ result.success = FALSE

\* C3 (as claimed): a failure of the fetch or of the normalization of a record, of
\* whatever kind, is returned as the error_type "unexpected" envelope that embeds
\* the failure's message, never as "validation".
C3_FetchFailureIsUnexpected ==
    (pc = "done" /\ Failed /\ raised.at \in {"fetch", "normalize"}) =>
        result = [success |-> FALSE,
                  error |-> "Failed to fetch roll calls: " \o raised.exc.msg,
                  error_type |-> "unexpected",
                  metadata |-> [tool_name |-> "get_roll_calls",
                                api_call |-> "GetRollCalls"]]

\* C10: in every success envelope the roll calls are in ascending order of
\* sequence_number.
C10_Ascending ==
    (Returned /\ "data" \in DOMAIN result) =>
        \A i, j \in 1..Len(result.data.roll_calls) :
            i < j =>
                LET a == result.data.roll_calls[i].sequence_number
                    b == result.data.roll_calls[j].sequence_number
                IN  IsInt(a) /\ IsInt(b) /\ a.int <= b.int

C10_Witness ==
    /\ Returned
    /\ roll_calls_data = PyList(<<RecWrapped, RecEarly>>)
    /\ "data" \in DOMAIN result
    /\ Len(result.data.roll_calls) = 2
    /\ result.data.roll_calls[1].sequence_number = PyInt(0)
    /\ result.data.roll_calls[2].sequence_number = PyInt(2)

\* Helpers of the parsing claims, written from the claims' wording
Digits(s) == SelectSeq(s, LAMBDA c : IsDigit(c))
Letters == {"H", "S"}
Trimmed(s) ==
    LET inner == {i \in 1..Len(s) : s[i] \notin Whitespace}
    IN  IF inner = {} THEN <<>>
        ELSE SubSeq(s, CHOOSE i \in inner : \A j \in inner : i <= j,
                       CHOOSE i \in inner : \A j \in inner : j <= i)
\* The text after the last character of s that belongs to seps (s itself if none)
AfterLast(s, seps) ==
    LET at == {i \in 1..Len(s) : s[i] \in seps}
    IN  IF at = {} THEN s
        ELSE SubSeq(s, (CHOOSE i \in at : \A j \in at : j <= i) + 1, Len(s))
Parsed == pc \notin {"idle", "resolve", "parse"} /\ ~(Failed /\ raised.at = "resolve")
FormatError(s) ==
    [success |-> FALSE,
     error |-> "Invalid bill number format: " \o Text(s)
               \o ". Expected format: 'HB 1234', 'SB 5678', or '1234'",
     error_type |-> "validation",
     metadata |-> [tool_name |-> "get_roll_calls", api_call |-> "GetRollCalls"]]
NoDigitCandidate(s) ==
    LET t == Trimmed(s)
    IN  Digits(IF Contains(t, " ") THEN AfterLast(t, Whitespace) ELSE t) = <<>>

C5_ShimOnlyAfterValidation ==
    /\ Len(shim_calls) <= 1
    /\ pc \in {"idle", "resolve", "parse"} => shim_calls = <<>>
    /\ shim_calls # <<>> =>
          /\ bill_num_str # <<>>
          /\ IsInt(bill_num)
          /\ shim_calls[1].bill_number = bill_num
    /\ (pc = "done" /\ "error_type" \in DOMAIN result /\ result.error_type = "validation")
          => shim_calls = <<>>

\* A non-empty string of the digits 0-9
IsNumber(n) == n # <<>> /\ \A i \in 1..Len(n) : n[i] \in DecimalDigits
\* "<chamber prefix> n": letters, one space, a number
IsChamberForm(s) ==
    \E k \in 2..(Len(s) - 1) :
        /\ s[k] = " "
        /\ \A i \in 1..(k - 1) : s[i] \in Letters
        /\ IsNumber(SubSeq(s, k + 1, Len(s)))
NumberOf(s) == IF IsNumber(s) THEN s ELSE AfterLast(s, {" "})

\* C6: "HB n", "SB n" and bare "n" are all parsed to the integer value of n, and the
\* shim is called with that integer and the resolved biennium.
C6_SameNumberForAllForms ==
    (Parsed /\ (IsNumber(bill_number) \/ IsChamberForm(bill_number))) =>
        LET n == PyInt(DecimalValue(NumberOf(bill_number)))
        IN  /\ bill_num = n
            /\ pc # "fetch" =>
                  /\ shim_calls = <<[biennium |-> biennium, bill_number |-> n]>>
                  /\ IF Truthy(biennium_arg) THEN biennium = biennium_arg
                     ELSE Ok(biennium) \in ResolverOutcomes

C6_Witness ==
    /\ Returned
    /\ bill_number = <<"S", " ", "0", "1">>
    /\ shim_calls = <<[biennium |-> PyStr("2023-24"), bill_number |-> PyInt(1)]>>

\* The digit string a reading of the parsing rule yields for candidate c, and its use
DigitStringIs(c) ==
    Parsed =>
        /\ bill_num_str = Digits(c)
        /\ shim_calls # <<>> =>
              shim_calls[1].bill_number = PyInt(DecimalValue(Digits(c)))

\* C7 (as claimed): the numeric candidate is the text after the last space of the
\* trimmed identifier if it holds a space, else the whole trimmed identifier; the
\* digit string is the candidate without its non-digit characters, and the shim gets
\* its integer value.
C7_AfterLastSpace ==
    LET t == Trimmed(bill_number)
    IN  DigitStringIs(IF Contains(t, " ") THEN AfterLast(t, {" "}) ELSE t)

\* C7 (amended): if the trimmed identifier holds a space, the numeric candidate is
\* the text after its last whitespace character of any kind, else the whole trimmed
\* identifier; the digit string is the candidate without its non-digit characters,
\* and the shim gets its integer value.
C7_AfterLastWhitespace ==
    LET t == Trimmed(bill_number)
    IN  DigitStringIs(IF Contains(t, " ") THEN AfterLast(t, Whitespace) ELSE t)

C7_Witness ==
    /\ Returned
    /\ bill_number = <<"1", " ", "1", "\t", "0">>
    /\ bill_num_str = <<"0">>
    /\ shim_calls # <<>>
    /\ shim_calls[1].bill_number = PyInt(0)

\* C8 (as claimed): the identifier is split on whitespace of any kind, the last token
\* is taken whenever there is more than one, and its non-digit characters are removed.
C8_LastTokenOfAnySplit ==
    LET tokens == Split(bill_number)
    IN  Parsed =>
            bill_num_str = Digits(IF Len(tokens) > 1 THEN tokens[Len(tokens)]
                                  ELSE Trimmed(bill_number))

\* C8 (amended): the last token is taken only when the trimmed identifier holds a
\* space character; an identifier whose tokens are separated by other whitespace
\* only is taken whole; then the non-digit characters are removed.
C8_LastTokenWhenSpace ==
    LET tokens == Split(bill_number)
    IN  Parsed =>
            bill_num_str = Digits(IF Len(tokens) > 1 /\ Contains(Trimmed(bill_number), " ")
                                  THEN tokens[Len(tokens)]
                                  ELSE Trimmed(bill_number))

C8_Witness ==
    /\ Returned
    /\ bill_number = <<"1", "\t", "H">>
    /\ bill_num_str = <<"1">>
    /\ shim_calls # <<>>

\* C9: for a valid identifier, a shim that returns None and a shim that returns an
\* empty sequence both yield the same success envelope: no roll calls, the original
\* identifier, and the "No roll calls found" message; never an error envelope.
C9_EmptyResult ==
    (pc = "done" /\ Fetched /\ roll_calls_data \in {PyNone, PyList(<<>>)}) =>
        result = [success |-> TRUE,
                  data |-> [bill_number |-> Text(bill_number),
                            biennium |-> biennium,
                            roll_calls |-> <<>>],
                  metadata |-> [message |-> "No roll calls found for bill "
                                            \o Text(bill_number) \o " in biennium "
                                            \o biennium.str,
                                api_call |-> "GetRollCalls"]]

C9_Witness ==
    /\ Returned
    /\ Fetched
    /\ roll_calls_data = PyNone
    /\ bill_number = <<"H", " ", "1">>
    /\ result.success = TRUE
    /\ result.data.roll_calls = <<>>

\* The records of the fetched sequence, normalized, in the order the shim gave them
FetchedOrder ==
    [i \in 1..Len(roll_calls_data.list) |-> NormalizeRecord(roll_calls_data.list[i]).val]
WithKey(rcs, k) == SelectSeq(rcs, LAMBDA x : x.sequence_number = k)
NonEmptySuccess ==
    /\ Returned
    /\ "data" \in DOMAIN result
    /\ result.data.roll_calls # <<>>

\* C11: the sort is stable: for every sequence_number, the output records that carry it
\* are the fetched records that carry it, in the order the shim returned them; no other
\* field of a record has a say.
C11_Stable ==
    NonEmptySuccess =>
        \A k \in {FetchedOrder[i].sequence_number : i \in DOMAIN FetchedOrder} :
            WithKey(result.data.roll_calls, k) = WithKey(FetchedOrder, k)

C11_Witness ==
    /\ NonEmptySuccess
    /\ roll_calls_data = PyList(<<RecEarly, RecBlank>>)
    /\ result.data.roll_calls[1].date = PyStr("2023-03-01")
    /\ result.data.roll_calls[2].date = PyStr("")
    /\ result.data.roll_calls[1].sequence_number = result.data.roll_calls[2].sequence_number

\* The one record of the normalization specification has been through the loop body
Normalized ==
    /\ pc = "sort"
    /\ Len(roll_calls_data.list) = 1
NormalizeFailed ==
    /\ pc = "done"
    /\ Failed
    /\ raised.at = "normalize"
    /\ Len(roll_calls_data.list) = 1
TheRecord == roll_calls_data.list[1]
HasVotes(rec) == IsDict(rec) /\ "votes" \in DOMAIN rec.dict
IsBare(rec) == HasVotes(rec) /\ IsList(rec.dict.votes)
IsWrapped(rec) ==
    /\ HasVotes(rec)
    /\ IsDict(rec.dict.votes)
    /\ DOMAIN rec.dict.votes.dict = {"array_of_vote"}
    /\ IsList(rec.dict.votes.dict.array_of_vote)
\* The record that differs from rec in the shape of its votes only
OtherShape(rec) ==
    IF IsBare(rec)
    THEN DictSet(rec, "votes", PyDict([array_of_vote |-> rec.dict.votes]))
    ELSE DictSet(rec, "votes", rec.dict.votes.dict.array_of_vote)

\* C12: a record whose votes are a bare sequence V and the record that differs from it
\* only in that its votes are {"array_of_vote": V} are normalized to the same output
\* record (and when an entry of V lets the normalization fail, both fail alike).
C12_ShapeTolerance ==
    /\ (Normalized /\ (IsBare(TheRecord) \/ IsWrapped(TheRecord))) =>
           NormalizeRecord(OtherShape(TheRecord)) = Ok(formatted_roll_calls[1])
    /\ (NormalizeFailed /\ (IsBare(TheRecord) \/ IsWrapped(TheRecord))) =>
           NormalizeRecord(OtherShape(TheRecord)) = Raise(raised.exc)

C12_Witness ==
    /\ Normalized
    /\ IsBare(TheRecord)
    /\ TheRecord.dict.votes = PyList(<<Vote2, Vote1>>)
    /\ Len(formatted_roll_calls[1].votes) = 2
    /\ formatted_roll_calls[1].votes[1].legislator_name = PyStr("Doe, Jane")
    /\ formatted_roll_calls[1].description = PyStr("Third Reading")

\* The normalization specification has returned a success envelope for its one record
OneRecordSuccess ==
    /\ NonEmptySuccess
    /\ Len(roll_calls_data.list) = 1
    /\ Len(result.data.roll_calls) = 1
\* The vote entries of a fetched record, by the shape of its votes
SourceVotes(rec) ==
    IF IsBare(rec) THEN rec.dict.votes.list
    ELSE IF IsWrapped(rec) THEN rec.dict.votes.dict.array_of_vote.list
    ELSE <<>>
\* text is the decimal numeral of d: digits without a leading zero whose value is d
IsDecimalOf(text, d) ==
    \E q \in StringsUpTo(DecimalDigits, 2) :
        /\ q # <<>>
        /\ Len(q) > 1 => q[1] # "0"
        /\ DecimalValue(q) = d
        /\ Text(q) = text

\* C13: in a success envelope every output vote's district is a string; it is the
\* decimal numeral of the fetched district when that is an int, and the empty string
\* when the fetched vote has no district.
C13_DistrictIsString ==
    OneRecordSuccess =>
        LET out == result.data.roll_calls[1].votes
            src == SourceVotes(TheRecord)
        IN  /\ Len(out) = Len(src)
            /\ \A j \in 1..Len(out) :
                   /\ IsStr(out[j].district)
                   /\ "district" \notin DOMAIN src[j].dict => out[j].district.str = ""
                   /\ ("district" \in DOMAIN src[j].dict /\ IsInt(src[j].dict.district)) =>
                          IsDecimalOf(out[j].district.str, src[j].dict.district.int)

C13_Witness ==
    /\ OneRecordSuccess
    /\ SourceVotes(TheRecord) = <<VoteTen, Vote2>>
    /\ result.data.roll_calls[1].votes[1].district = PyStr("10")
    /\ result.data.roll_calls[1].votes[2].district = PyStr("")

\* A fetched record as the provider documents it: a mapping whose sequence_number, if
\* any, is an int and whose votes, if any, are mappings in one of the two shapes
WellFormed(rec) ==
    /\ IsDict(rec)
    /\ "sequence_number" \in DOMAIN rec.dict => IsInt(rec.dict.sequence_number)
    /\ HasVotes(rec) =>
           /\ IsBare(rec) \/ IsWrapped(rec)
           /\ \A j \in 1..Len(SourceVotes(rec)) : IsDict(SourceVotes(rec)[j])
\* The biennium the call works with: the caller's, or else the resolver's
ResolvedBiennium ==
    IF Truthy(biennium_arg) THEN biennium_arg
    ELSE (CHOOSE outcome \in ResolverOutcomes : outcome.ok).val

Resolved == pc \notin {"idle", "resolve"}
ShimBienniums == {shim_calls[i].biennium : i \in DOMAIN shim_calls}
SuccessBienniums ==
    IF Returned /\ "data" \in DOMAIN result THEN {result.data.biennium} ELSE {}

\* C15 (as claimed): the resolver is consulted if and only if the caller's biennium is
\* absent (None); a biennium the caller supplies is the one the shim is invoked with
\* and the one of data.biennium; when absent, the resolver's value is used for both.
C15_ResolverIffAbsent ==
    Resolved =>
        /\ resolver_calls > 0 <=> biennium_arg = PyNone
        /\ biennium_arg # PyNone =>
               ShimBienniums \cup SuccessBienniums \subseteq {biennium_arg}
        /\ biennium_arg = PyNone =>
               ShimBienniums \cup SuccessBienniums \subseteq {ResolvedBiennium}

\* C15 (amended): the resolver is consulted, once, if and only if the caller's biennium
\* is absent or the empty string; a non-empty biennium the caller supplies is the one
\* the shim is invoked with and the one of data.biennium; otherwise the resolver's
\* value is used for both.
C15_ResolverIffAbsentOrEmpty ==
    Resolved =>
        /\ resolver_calls = (IF biennium_arg \in {PyNone, PyStr("")} THEN 1 ELSE 0)
        /\ biennium_arg \notin {PyNone, PyStr("")} =>
               ShimBienniums \cup SuccessBienniums \subseteq {biennium_arg}
        /\ biennium_arg \in {PyNone, PyStr("")} =>
               ShimBienniums \cup SuccessBienniums
                   \subseteq {outcome.val : outcome \in {o \in ResolverOutcomes : o.ok}}

C15_Witness ==
    /\ Returned
    /\ biennium_arg = PyStr("")
    /\ resolver_calls = 1
    /\ Len(shim_calls) = 1
    /\ shim_calls[1].biennium = PyStr("2025-26")
    /\ "data" \in DOMAIN result
    /\ result.data.biennium = PyStr("2025-26")
    /\ result.data.roll_calls # <<>>

\* The value of a source field, or the default when the mapping lacks the field
FromSource(src, field, default) ==
    IF field \in DOMAIN src.dict THEN src.dict[field] ELSE default

\* C19: every output roll call has exactly the keys sequence_number, date,
\* description, yea_votes, nay_votes, absent_votes, excused_votes and votes;
\* their values are the source's sequence_number (default 0), vote_date (default ""),
\* motion (default ""), yea_count, nay_count, absent_count, excused_count (default 0
\* each) and one normalized vote per source vote.
C19_RecordAssembly ==
    OneRecordSuccess =>
        LET out == result.data.roll_calls[1]
            src == TheRecord
            votes == SourceVotes(src)
        IN  /\ DOMAIN out = {"sequence_number", "date", "description", "yea_votes",
                             "nay_votes", "absent_votes", "excused_votes", "votes"}
            /\ out.sequence_number = FromSource(src, "sequence_number", PyInt(0))
            /\ out.date = FromSource(src, "vote_date", PyStr(""))
            /\ out.description = FromSource(src, "motion", PyStr(""))
            /\ out.yea_votes = FromSource(src, "yea_count", PyInt(0))
            /\ out.nay_votes = FromSource(src, "nay_count", PyInt(0))
            /\ out.absent_votes = FromSource(src, "absent_count", PyInt(0))
            /\ out.excused_votes = FromSource(src, "excused_count", PyInt(0))
            /\ Len(out.votes) = Len(votes)
            /\ \A j \in 1..Len(votes) :
                   /\ DOMAIN out.votes[j] = {"legislator_name", "vote", "district", "party"}
                   /\ out.votes[j].legislator_name = FromSource(votes[j], "name", PyStr(""))
                   /\ out.votes[j].vote = FromSource(votes[j], "vote_value", PyStr(""))
                   /\ out.votes[j].party = FromSource(votes[j], "party", PyStr(""))

C19_Witness ==
    /\ OneRecordSuccess
    /\ DOMAIN TheRecord.dict = {"vote_date", "yea_count", "votes"}
    /\ TheRecord.dict.votes = PyList(<<Vote1>>)
    /\ result.data.roll_calls[1].sequence_number = PyInt(0)
    /\ result.data.roll_calls[1].date = PyStr("2023-04-01")
    /\ result.data.roll_calls[1].description = PyStr("")
    /\ result.data.roll_calls[1].yea_votes = PyInt(60)
    /\ result.data.roll_calls[1].excused_votes = PyInt(0)

\* A run of a client operation is on record
ShimRan == upstream # NoUpstream
\* The provider call raised, or it returned something non-empty that is no mapping, so
\* that unwrapping it raises
ProviderFailed ==
    \/ ~upstream.provider.ok
    \/ /\ upstream.provider.ok
       /\ ~IsDict(upstream.provider.val)
       /\ upstream.provider.val \notin {PyNone, PyList(<<>>), PyStr("")}

\* C16: no exception leaves an operation of the client: when the provider call raises
\* or its response cannot be unwrapped, the operation writes one error line to the log
\* and returns None.
C16_ShimNeverRaises ==
    ShimRan =>
        /\ upstream.escaped = NoException
        /\ ProviderFailed =>
               /\ upstream.returned = PyNone
               /\ Len(log) = 1

C16_Witness ==
    /\ pc = "shim_done"
    /\ upstream.op = "get_session_law_by_bill"
    /\ upstream.provider = Raise(Exc("ValueError", "bad payload"))
    /\ upstream.bill_number = PyInt(1234)
    /\ upstream.returned = PyNone
    /\ log = <<"Failed to get session law for bill 1234 in 2025-26: bad payload">>

\* The provider call returned a mapping, or nothing
ProviderAnswered ==
    /\ ShimRan
    /\ upstream.provider.ok
    /\ IsDict(upstream.provider.val) \/ IsNone(upstream.provider.val)
\* The field the operation unwraps
WellKnownField ==
    IF upstream.op = "get_roll_calls" THEN "array_of_roll_call" ELSE "session_law"
HasField ==
    /\ IsDict(upstream.provider.val)
    /\ WellKnownField \in DOMAIN upstream.provider.val.dict

\* C17 (as claimed): when the provider call succeeds, the operation returns the value
\* of its well-known field of the response; when the response lacks the field, it
\* returns None, whether the operation is sequence-valued or single-record.
C17_MissingFieldIsAbsent ==
    ProviderAnswered =>
        /\ upstream.escaped = NoException
        /\ HasField => upstream.returned = upstream.provider.val.dict[WellKnownField]
        /\ ~HasField => upstream.returned = PyNone

\* C17 (amended): when the provider call succeeds, the operation returns the value of
\* its well-known field of the response; when the response is None or an empty mapping
\* it returns None; when the response is a non-empty mapping without the field, a
\* sequence-valued operation returns the empty sequence and a single-record
\* operation returns None.
C17_MissingFieldDefault ==
    ProviderAnswered =>
        /\ upstream.escaped = NoException
        /\ log = <<>>
        /\ HasField => upstream.returned = upstream.provider.val.dict[WellKnownField]
        /\ ~HasField =>
               upstream.returned =
                   IF /\ upstream.op = "get_roll_calls"
                      /\ upstream.provider.val \notin {PyNone, EmptyDict}
                   THEN PyList(<<>>)
                   ELSE PyNone

C17_Witness ==
    /\ pc = "shim_done"
    /\ upstream.op = "get_roll_calls"
    /\ upstream.provider = Ok(PyDict([message |-> PyStr("not found")]))
    /\ upstream.returned = PyList(<<>>)
    /\ log = <<>>

\* The provider call succeeded and had no roll call to report
ProviderFoundNothing ==
    /\ upstream.provider.ok
    /\ upstream.provider.val \in
           {PyNone, EmptyDict,
            PyDict([message |-> PyStr("not found")]),
            PyDict([array_of_roll_call |-> PyNone]),
            PyDict([array_of_roll_call |-> PyList(<<>>)])}

\* C18: behind the real client, a provider call that fails and one that returns
\* nothing give the caller of get_roll_calls the same envelope, a function of the
\* bill identifier and the biennium alone: success true, no roll calls, the "No roll
\* calls found" message; never an error envelope.
C18_FailureLooksEmpty ==
    (pc = "done" /\ ShimRan /\ (ProviderFailed \/ ProviderFoundNothing)) =>
        result = [success |-> TRUE,
                  data |-> [bill_number |-> Text(bill_number),
                            biennium |-> ResolvedBiennium,
                            roll_calls |-> <<>>],
                  metadata |-> [message |-> "No roll calls found for bill "
                                            \o Text(bill_number) \o " in biennium "
                                            \o ResolvedBiennium.str,
                                api_call |-> "GetRollCalls"]]

C18_Witness ==
    /\ Returned
    /\ ShimRan
    /\ upstream.provider = Raise(Exc("Exception", "API Error"))
    /\ bill_number = <<"H", " ", "1">>
    /\ biennium_arg = PyStr("2023-24")
    /\ log = <<"Failed to get roll calls for bill 1 in 2023-24: API Error">>
    /\ result.success = TRUE
    /\ result.data.roll_calls = <<>>

\* The frame that call c ends in when it runs alone with the arguments it was given
\* and the answers its collaborators gave it
RECURSIVE RunAlone(_, _, _)
RunAlone(f, ro, po) == IF f.pc = "done" THEN f ELSE RunAlone(Advance(f, ro, po), ro, po)
Alone(c) ==
    RunAlone(StartLocals(calls[c].bill_number, calls[c].biennium),
             calls[c].resolver, calls[c].provider)

\* C20: however the steps of two calls interleave, each call returns the envelope
\* it returns when it runs alone with the same arguments and the same answers of the
\* resolver and the provider.
C20_NoInterference ==
    \A c \in CallIds :
        calls[c].locals.pc = "done" =>
            /\ calls[c].locals.escaped = NoException
            /\ calls[c].locals.result = Alone(c).result

C20_Witness ==
    /\ calls[1].locals.pc = "done"
    /\ calls[2].locals.pc = "sort"
    /\ calls[1].bill_number = <<"H">>
    /\ calls[1].locals.result.success = FALSE
    /\ calls[2].bill_number = <<"H", " ", "2">>
    /\ calls[2].locals.idx = 2
    /\ calls[2].biennium = PyNone
    /\ calls[2].locals.biennium = PyStr("2025-26")

\* C21 (as claimed): the metadata of every success envelope holds a timestamp entry
\* next to api_call, as in the example of the docstring (lines 58-61).
C21_SuccessHasTimestamp ==
    (Returned /\ "data" \in DOMAIN result) =>
        {"api_call", "timestamp"} \subseteq DOMAIN result.metadata

\* C22: when the digit string taken from the identifier is not empty and int() rejects
\* it, the call returns success false, error_type "validation", the text "Invalid bill
\* number: <original input>. Must be a valid number.", the error metadata, and the shim
\* has not been invoked.
C22_UnconvertibleIsValidation ==
    (/\ pc = "done"
     /\ bill_num_str # <<>>
     /\ \E i \in 1..Len(bill_num_str) : bill_num_str[i] \notin DecimalDigits) =>
        /\ result = [success |-> FALSE,
                     error |-> "Invalid bill number: " \o Text(bill_number)
                               \o ". Must be a valid number.",
                     error_type |-> "validation",
                     metadata |-> [tool_name |-> "get_roll_calls",
                                   api_call |-> "GetRollCalls"]]
        /\ escaped = NoException
        /\ shim_calls = <<>>

C22_Witness ==
    /\ Returned
    /\ bill_number = <<"H", " ", "1", "²">>
    /\ bill_num_str = <<"1", "²">>
    /\ result.success = FALSE
    /\ result.error_type = "validation"
    /\ ~Contains(bill_num_str, "H")
    /\ shim_calls = <<>>

\* The one fetched record is a mapping and the loop body has run on it
LoopBodyRan ==
    /\ Fetched
    /\ IsList(roll_calls_data)
    /\ Len(roll_calls_data.list) = 1
    /\ IsDict(TheRecord)
    /\ pc \in {"sort", "done"}
EntriesAreMappings(rec) ==
    \A j \in 1..Len(SourceVotes(rec)) : IsDict(SourceVotes(rec)[j])
\* What a mapping holds under array_of_vote, if anything, is a sequence
SubKeyIsSequence(rec) ==
    (/\ HasVotes(rec)
     /\ IsDict(rec.dict.votes)
     /\ "array_of_vote" \in DOMAIN rec.dict.votes.dict) =>
        IsList(rec.dict.votes.dict.array_of_vote)
\* The output of one vote entry, field by field
ExpectedVote(entry, out) ==
    /\ DOMAIN out = {"legislator_name", "vote", "district", "party"}
    /\ out.legislator_name = FromSource(entry, "name", PyStr(""))
    /\ out.vote = FromSource(entry, "vote_value", PyStr(""))
    /\ out.party = FromSource(entry, "party", PyStr(""))
    /\ IsStr(out.district)
    /\ "district" \notin DOMAIN entry.dict => out.district = PyStr("")

OwnValue ==
    IF ProviderFailed THEN PyNone
    ELSE IF ~IsDict(upstream.provider.val) THEN PyNone
    ELSE IF HasField THEN upstream.provider.val.dict[WellKnownField]
    ELSE IF upstream.op = "get_roll_calls" /\ upstream.provider.val # EmptyDict
    THEN PyList(<<>>)
    ELSE PyNone
SameArguments(a, b) ==
    /\ a.op = b.op
    /\ a.biennium = b.biennium
    /\ a.bill_number = b.bill_number

RecordFails(rec) ==
    \/ ~IsDict(rec)
    \/ ~SubKeyIsSequence(rec)
    \/ ~EntriesAreMappings(rec)
\* Fetched records that the sort of line 154 cannot compare
SortFails(recs) ==
    /\ Len(recs) > 1
    /\ \E i \in 1..Len(recs) :
           /\ "sequence_number" \in DOMAIN recs[i].dict
           /\ ~IsInt(recs[i].dict.sequence_number)
AnyRecordFails ==
    \/ \E i \in 1..Len(roll_calls_data.list) : RecordFails(roll_calls_data.list[i])
    \/ SortFails(roll_calls_data.list)

\* C25: when one of the fetched records is malformed (its normalization or the final
\* sort fails), the call returns the "unexpected" error envelope without data, whatever
\* the other records are; it returns a success envelope only when every fetched record
\* was normalized, and then with one roll call per record.
C25_AllOrNothing ==
    (pc = "done" /\ Fetched /\ IsList(roll_calls_data) /\ roll_calls_data.list # <<>>) =>
        /\ escaped = NoException
        /\ AnyRecordFails =>
               /\ result.success = FALSE
               /\ "data" \notin DOMAIN result
               /\ result.error_type = "unexpected"
        /\ ~AnyRecordFails =>
               /\ result.success = TRUE
               /\ Len(result.data.roll_calls) = Len(roll_calls_data.list)

C25_Witness ==
    /\ Returned
    /\ Fetched
    /\ roll_calls_data = PyList(<<RecEarly, RecMalformed>>)
    /\ idx = 1
    /\ Len(formatted_roll_calls) = 1
    /\ result.success = FALSE
    /\ "data" \notin DOMAIN result

\* C26: the sequence the client returned is left as it was: from the fetch to the
\* return, the fetched sequence holds the same records in the same order, each with
\* the fields and votes it came with; the output is built from new records.
C26_FetchedSequenceUntouched ==
    (ShimRan /\ pc \in {"check", "normalize", "sort", "done"}) =>
        roll_calls_data = upstream.returned

C26_Witness ==
    /\ Returned
    /\ ShimRan
    /\ upstream.returned = PyList(<<RecWrapped, RecEarly>>)
    /\ roll_calls_data = PyList(<<RecWrapped, RecEarly>>)
    /\ "data" \in DOMAIN result
    /\ result.data.roll_calls[1].sequence_number = PyInt(0)
    /\ result.data.roll_calls[2].votes[1].district = PyStr("1")

\* The output record out is the fetched record src with the votes src came with, one
\* output vote per source vote, in the source's order
CarriesVotesOf(out, src) ==
    /\ out.sequence_number = FromSource(src, "sequence_number", PyInt(0))
    /\ out.date = FromSource(src, "vote_date", PyStr(""))
    /\ out.description = FromSource(src, "motion", PyStr(""))
    /\ Len(out.votes) = Len(SourceVotes(src))
    /\ \A j \in 1..Len(out.votes) : ExpectedVote(SourceVotes(src)[j], out.votes[j])
Rearrangements(n) == {p \in [1..n -> 1..n] : \A i, j \in 1..n : p[i] = p[j] => i = j}

\* C27: in a success envelope every fetched record appears once, at some position,
\* with exactly its own votes in their fetched order: the sort moves whole records and
\* never reorders, drops, duplicates or exchanges votes.
C27_VotesStayWithRecord ==
    NonEmptySuccess =>
        LET out == result.data.roll_calls
            src == roll_calls_data.list
        IN  /\ Len(out) = Len(src)
            /\ \E p \in Rearrangements(Len(src)) :
                   \A i \in 1..Len(src) : CarriesVotesOf(out[p[i]], src[i])

C27_Witness ==
    /\ NonEmptySuccess
    /\ roll_calls_data = PyList(<<RecBare, RecEarly>>)
    /\ result.data.roll_calls[1].votes = <<>>
    /\ Len(result.data.roll_calls[2].votes) = 2
    /\ result.data.roll_calls[2].votes[1].legislator_name = PyStr("Smith, John")
    /\ result.data.roll_calls[2].votes[2].legislator_name = PyStr("Doe, Jane")

\* C28 (as claimed): when the biennium is absent the resolver is called exactly once
\* before the identifier is examined, whatever the identifier; and when the resolver
\* raises, the call returns the error_type "unexpected" envelope with the resolver's
\* message, also for a malformed identifier.
C28_ResolverBeforeValidation ==
    (biennium_arg = PyNone /\ Resolved) =>
        /\ resolver_calls = 1
        /\ (Failed /\ raised.at = "resolve") =>
               /\ bill_num_str = <<>>
               /\ shim_calls = <<>>
               /\ result = [success |-> FALSE,
                            error |-> "Failed to fetch roll calls: " \o raised.exc.msg,
                            error_type |-> "unexpected",
                            metadata |-> [tool_name |-> "get_roll_calls",
                                          api_call |-> "GetRollCalls"]]

\* The metadata of the returned envelope carries the entry
HasEntry(key) == key \in DOMAIN result.metadata

====
